---- MODULE Spec2Model ----
(***************************************************************************)
(* v4l2py/device.py: the buffer pool (Buffers, BufferMMAP), the capture    *)
(* session (VideoCapture.start/stop), the stream wrapper (VideoStream) and *)
(* the two iteration protocols (Stream, AsyncStream), run against a V4L2   *)
(* driver whose answers are the nondeterministic inputs of every handler;  *)
(* and the device handle (Device.close and its scopes) with the capture's  *)
(* configuration requests (set_format, set_selection).                     *)
(***************************************************************************)
EXTENDS Integers, Sequences, FiniteSets, TLC

\* ------------------------------------------------------------------ bounds
MaxBuffers == 3     \* largest buffer_size requested / count granted
MaxLen == 1         \* largest buffer length the driver reports
MaxDepth == 2       \* deepest nesting of `with device:` scopes
MaxFormats == 2     \* formats a caller asks for
MaxRects == 9       \* longest rect_array given to set_selection
MaxIoctls == 130    \* ioctls counted in one enumeration loop

VARIABLES
    fobj_closed,    \* Device._fobj.closed
    streaming,      \* driver side: STREAMON in effect
    kin,            \* driver side: indices queued by QBUF, in queueing order
    kout,           \* driver side: filled indices waiting for DQBUF, in release order
    bufstate,       \* Buffers.buffers is: "absent" (no pool object), "list", "None"
    buffers,        \* Buffers.buffers when it is a list: the BufferMMAP slots
    buffer_queue,   \* Buffers.buffer_queue
    leaked,         \* BufferMMAP objects of a failed construction, still mapped
    mode,           \* the iterator in use: "none", "sync" (Stream), "async" (AsyncStream)
    pc,             \* position of that generator
    event,          \* AsyncStream: asyncio.Event is set
    registered,     \* AsyncStream: loop.add_reader in effect for the descriptor
    it_on,          \* this iteration's cap.start() returned
    it_off,         \* this iteration's cap.stop() issued STREAMOFF
    hist,           \* indices dequeued last in the steady capture, at most one window
    capture,        \* the pool's capture: "steady"; "lost": a QBUF failed and its slot
                    \* stays with the caller; "dropped": the driver dropped its queues
    last,           \* the latest handler run: its name, kernel calls, exception
    context_level,  \* Device._context_level
    format,         \* driver side: the capture format in effect (0: the default)
    scheduled,      \* AsyncStream: the reader's handle waits in the loop's ready queue
    enum_loop,      \* the enumeration loop that runs or ran last ("none": none yet)
    enum_pc,        \* that loop is: "idle", "running", "returned", "raised"
    enum_n,         \* ioctls that loop has issued
    stream_level,   \* VideoStream._context_level
    buffers_level   \* Buffers._context_level

\* The state of the enumeration loops, and that of the scopes of the stream
\* and of its pool.
enum == <<enum_loop, enum_pc, enum_n>>

scopes == <<stream_level, buffers_level>>

vars == <<fobj_closed, streaming, kin, kout, bufstate, buffers,
          buffer_queue, leaked, mode, pc, event, registered, it_on, it_off,
          hist, capture, last, context_level, format, scheduled, enum,
          scopes>>

\* ----------------------------------------------------------------- helpers
Range(s) == {s[i] : i \in 1..Len(s)}

Remove(s, x) == SelectSeq(s, LAMBDA y : y # x)

\* One kernel call as the handler issued it: the request, its index/count
\* argument as the kernel answered it, and whether it succeeded.
Call(req, arg, ok) == [req |-> req, arg |-> arg, ok |-> ok]

Reqs(calls) == [i \in 1..Len(calls) |-> calls[i].req]

Count(calls, req, arg) ==
    Cardinality({i \in 1..Len(calls) : calls[i].req = req /\ calls[i].arg = arg})

NoCalls == <<>>

Memories == {"MMAP", "USERPTR"}

SlotSteps == {"QUERYBUF", "mmap", "QBUF"}

\* ------------------------------------------------------- BufferMMAP.__init__
\* fail names the kernel call of this construction that raises ("none": no
\* call does). The result: the calls made, whether the constructor returned,
\* and the object as far as it got (mmap = TRUE once mmap.mmap returned).
C5_mutant_InitQueues(queue) == FALSE

\* line 685: whether the new slot queues itself.
InitQueues(queue) == queue

BufferMMAP_init(index, queue, length, fail) ==
    LET query == Call("QUERYBUF", index, fail # "QUERYBUF") @@ [length |-> length]
        map   == Call("mmap", index, fail # "mmap")
        qbuf  == Call("QBUF", index, fail # "QBUF")
        obj(m) == [index |-> index, length |-> length, mmap |-> m, queue |-> queue]
    IN  IF fail = "QUERYBUF"
        THEN [calls |-> <<query>>, ok |-> FALSE, slot |-> obj(FALSE)]
        ELSE IF fail = "mmap"
        THEN [calls |-> <<query, map>>, ok |-> FALSE, slot |-> obj(FALSE)]
        ELSE IF ~InitQueues(queue)
        THEN [calls |-> <<query, map>>, ok |-> TRUE, slot |-> obj(TRUE)]
        ELSE [calls |-> <<query, map, qbuf>>, ok |-> fail # "QBUF", slot |-> obj(TRUE)]

\* -------------------------------------------------- Buffers._create_buffers
\* The list comprehension over range(count): slots are built in index order
\* and the first constructor that raises ends it. failk/fail: the slot whose
\* construction raises and the call that does.
RECURSIVE BuildSlots(_, _, _, _, _, _, _)
BuildSlots(index, count, queue, length, failk, fail, acc) ==
    IF index >= count
    THEN acc
    ELSE LET b == BufferMMAP_init(index, queue, length,
                                  IF index = failk THEN fail ELSE "none")
             nxt == [calls |-> acc.calls \o b.calls,
                     ok    |-> b.ok,
                     slots |-> IF b.ok THEN Append(acc.slots, b.slot) ELSE acc.slots,
                     torn  |-> IF b.ok THEN <<>> ELSE <<b.slot>>]
         IN  IF b.ok
             THEN BuildSlots(index + 1, count, queue, length, failk, fail, nxt)
             ELSE nxt

C2_mutant_MemorySupported(mem) == TRUE

\* line 739: the memory kinds _create_buffers goes on with.
MemorySupported(mem) == mem = "MMAP"

C3_mutant_CountOk(count) == TRUE

\* line 746: the counts _create_buffers goes on with.
CountOk(count) == count # 0

C1_mutant_SlotRange(buffer_size, count) == buffer_size

\* line 750: the indices the comprehension ranges over, given the requested
\* buffer_size and the count REQBUFS wrote back into r.count.
SlotRange(buffer_size, count) == count

\* closed: the device handle is closed (Device._ioctl raises before any call);
\* granted: the count REQBUFS answers, -1 when REQBUFS itself fails.
create_buffers(mem, buffer_size, queue, closed, granted, length, failk, fail) ==
    LET none == [calls |-> NoCalls, ok |-> FALSE, slots |-> <<>>, torn |-> <<>>]
        req  == Call("REQBUFS", granted, granted >= 0)
    IN  IF ~MemorySupported(mem)
        THEN none @@ [raised |-> "TypeError"]
        ELSE IF closed
        THEN none @@ [raised |-> "ValueError"]
        ELSE IF granted < 0
        THEN [none EXCEPT !.calls = <<req>>] @@ [raised |-> "OSError"]
        ELSE IF ~CountOk(granted)
        THEN [none EXCEPT !.calls = <<req>>] @@ [raised |-> "IOError"]
        ELSE LET r == BuildSlots(0, SlotRange(buffer_size, granted), queue, length, failk, fail,
                                 [none EXCEPT !.calls = <<req>>, !.ok = TRUE])
             IN  r @@ [raised |-> IF r.ok THEN "none" ELSE "OSError"]

\* ------------------------------------------------------------- the driver
\* The driver's state after one kernel call that succeeded (a failed call
\* changes nothing): REQBUFS starts the queues afresh, QBUF appends the
\* index to the incoming queue, DQBUF takes it off the outgoing queue,
\* STREAMOFF stops the filling and empties both queues, S_FMT sets the format.
DriverCall(c, k) ==
    IF ~c.ok THEN k
    ELSE IF c.req = "REQBUFS" THEN [k EXCEPT !.kin = <<>>, !.kout = <<>>]
    ELSE IF c.req = "QBUF" THEN [k EXCEPT !.kin = Append(k.kin, c.arg)]
    ELSE IF c.req = "DQBUF" THEN [k EXCEPT !.kout = Remove(k.kout, c.arg)]
    ELSE IF c.req = "STREAMON" THEN [k EXCEPT !.on = TRUE]
    ELSE IF c.req = "STREAMOFF"
    THEN [k EXCEPT !.on = FALSE, !.kin = <<>>, !.kout = <<>>]
    ELSE IF c.req = "S_FMT" THEN [k EXCEPT !.fmt = c.arg]
    ELSE k

RECURSIVE Driver(_, _)
Driver(calls, k) ==
    IF calls = <<>> THEN k ELSE Driver(Tail(calls), DriverCall(Head(calls), k))

DriverNow == [on |-> streaming, kin |-> kin, kout |-> kout, fmt |-> format]

\* The handler's kernel calls take effect on the driver.
DriverRuns(calls) ==
    LET k == Driver(calls, DriverNow)
    IN  /\ streaming' = k.on
        /\ kin' = k.kin
        /\ kout' = k.kout
        /\ format' = k.fmt

KernelOwned == Range(kin) \cup Range(kout)

\* ------------------------------------------------------------ VideoCapture
C17_mutant_start(closed, ok) ==
    IF closed
    THEN [calls |-> NoCalls, raised |-> "ValueError"]
    ELSE [calls |-> <<Call("S_FMT", 0, TRUE), Call("STREAMON", 0, ok)>>,
          raised |-> IF ok THEN "none" ELSE "OSError"]

\* start(): STREAMON through Device._ioctl, which raises ValueError on a
\* closed file object before any kernel call.
start(closed, ok) ==
    IF closed
    THEN [calls |-> NoCalls, raised |-> "ValueError"]
    ELSE [calls |-> <<Call("STREAMON", 0, ok)>>,
          raised |-> IF ok THEN "none" ELSE "OSError"]

C11_mutant_stop(closed, ok) ==
    IF closed
    THEN [calls |-> NoCalls, raised |-> "ValueError"]
    ELSE [calls |-> <<Call("STREAMOFF", 0, ok)>>,
          raised |-> IF ok THEN "none" ELSE "OSError"]

\* stop(): STREAMOFF unless the device is closed.
stop(closed, ok) ==
    IF closed
    THEN [calls |-> NoCalls, raised |-> "none"]
    ELSE [calls |-> <<Call("STREAMOFF", 0, ok)>>,
          raised |-> IF ok THEN "none" ELSE "OSError"]

\* ------------------------------------------------------ BufferMMAP.raw_read
C22_mutant_Min(a, b) == a

\* line 699: the slice mmap[: bytesused] of a mapping of b bytes has
\* min(bytesused, b) bytes.
Min(a, b) == IF a < b THEN a ELSE b

C6_mutant_Requeues(slot) == FALSE

\* line 700: whether the slot gives itself back to the driver.
Requeues(slot) == slot.queue

C19_mutant_QbufIndex(slot, buff) == 0

\* line 701: the index of the QBUF, that of the v4l2_buffer DQBUF filled in.
QbufIndex(slot, buff) == buff.index

\* What a slice of the mapping gives while the driver holds the slot: bytes
\* the driver may be overwriting, not a frame.
Torn == -1

C20_mutant_CopiedWhile(owned, i) == owned \cup {i}

\* lines 699-701: the slice mmap[:bytesused] is taken (as a bytes object, a
\* copy) before the QBUF for index i is issued: the indices the driver holds
\* while the bytes are copied.
CopiedWhile(owned, i) == owned

\* buff: the v4l2_buffer as DQBUF filled it in; qok: the driver accepts the
\* QBUF; owned: the indices the driver holds (it refuses one it holds).
\* frame: the number of bytes of the slot's content handed to the caller.
BufferMMAP_raw_read(slot, buff, qok, owned) ==
    IF ~slot.mmap
    THEN [calls |-> NoCalls, raised |-> "TypeError", frame |-> 0]
    ELSE LET i == QbufIndex(slot, buff)
             result == IF slot.index \in CopiedWhile(owned, i)
                       THEN Torn
                       ELSE Min(buff.bytesused, slot.length)
             q == Call("QBUF", i, qok /\ i \notin owned)
         IN  IF Requeues(slot)
             THEN [calls |-> <<q>>, raised |-> IF q.ok THEN "none" ELSE "OSError",
                   frame |-> result]
             ELSE [calls |-> NoCalls, raised |-> "none", frame |-> result]

\* --------------------------------------------------------- Buffers.raw_read
C7_mutant_SlotRead(buff) == 0

\* line 762: the slot whose raw_read runs, given the v4l2_buffer of DQBUF.
SlotRead(buff) == buff.index

\* The exception fcntl.ioctl raises for an errno: OSError, or its subclass
\* BlockingIOError for EAGAIN (the device file is opened O_NONBLOCK).
OSErrorOf(errno) == IF errno = "EAGAIN" THEN "BlockingIOError" ELSE "OSError"

\* state/bufs: Buffers.buffers; dq: the driver's answer to DQBUF.
Buffers_raw_read(state, bufs, closed, dq, qok, owned) ==
    LET d == Call("DQBUF", dq.index, dq.ok) @@
             [errno |-> dq.errno, bytesused |-> dq.bytesused]
        none == [calls |-> NoCalls, index |-> -1, frame |-> 0]
    IN  IF state # "list"
        THEN none @@ [raised |-> "TypeError"]
        ELSE IF closed
        THEN none @@ [raised |-> "ValueError"]
        ELSE IF ~dq.ok
        THEN [none EXCEPT !.calls = <<d>>] @@ [raised |-> OSErrorOf(dq.errno)]
        ELSE LET slot == bufs[SlotRead(dq) + 1]
                 r == BufferMMAP_raw_read(slot, dq, qok, owned \ {dq.index})
             IN  [calls |-> <<d>> \o r.calls, index |-> slot.index,
                  frame |-> r.frame, raised |-> r.raised]

\* Buffers.read: select on the device (ValueError on a closed file object,
\* before anything else), then raw_read.
Buffers_read(state, bufs, closed, dq, qok, owned) ==
    IF closed
    THEN [calls |-> NoCalls, index |-> -1, frame |-> 0, raised |-> "ValueError"]
    ELSE Buffers_raw_read(state, bufs, closed, dq, qok, owned)

C13_mutant_Buffers_close(bufs) == bufs

\* Buffers.close: every slot's mmap is closed and set to None.
Buffers_close(bufs) == [i \in 1..Len(bufs) |-> [bufs[i] EXCEPT !.mmap = FALSE]]

\* The driver's possible answers to DQBUF: a failure (EAGAIN, would block,
\* while it streams and has no filled buffer; EIO for any other error), or
\* the buffer released first with the bytes used.
DqAnswers ==
    {[ok |-> FALSE, index |-> -1, bytesused |-> 0, errno |-> "EIO"]} \cup
    (IF kout = <<>>
     THEN IF streaming
          THEN {[ok |-> FALSE, index |-> -1, bytesused |-> 0, errno |-> "EAGAIN"]}
          ELSE {}
     ELSE {[ok |-> TRUE, index |-> Head(kout), bytesused |-> b, errno |-> "none"] :
           b \in 0..(MaxLen + 1)})

\* The latest dequeued indices, one window (as many as the pool has slots).
Window(h, m) == IF Len(h) > m THEN Tail(h) ELSE h

Failed(calls, req) == \E i \in 1..Len(calls) : calls[i].req = req /\ ~calls[i].ok

Succeeded(calls, req) == \E i \in 1..Len(calls) : calls[i].req = req /\ calls[i].ok

Issued(calls, req) == \E i \in 1..Len(calls) : calls[i].req = req

\* The effect of a cleanup or a stop on the history of the pool.
Stopped(calls) ==
    /\ capture' = IF Succeeded(calls, "STREAMOFF") THEN "dropped" ELSE capture
    /\ hist' = IF Succeeded(calls, "STREAMOFF") THEN <<>> ELSE hist

\* The effect of a dequeue on the history of the pool.
Dequeued(r) ==
    LET c == IF Succeeded(r.calls, "STREAMOFF") THEN "dropped"
             ELSE IF Failed(r.calls, "QBUF") /\ capture = "steady" THEN "lost"
             ELSE capture
    IN  /\ capture' = c
        /\ hist' = IF c # "steady" THEN <<>>
                   ELSE IF r.raised = "none"
                   THEN Window(Append(hist, r.index), Len(buffers))
                   ELSE hist

\* The mappings a failed construction leaves behind: no code path closes
\* them, only the finalizer of the unreferenced mmap object does.
Unclosed(r) == {s \in Range(r.slots) \cup Range(r.torn) : s.mmap}

\* One run of a handler: its name, the arguments it was given, the kernel
\* calls it made in order, the exception it left with ("none": it returned),
\* and for a dequeue the slot read and the length of the frame returned.
Ran(op, arg, calls, raised, index, frame) ==
    [op |-> op, arg |-> arg, calls |-> calls, raised |-> raised,
     index |-> index, frame |-> frame]

Init ==
    /\ fobj_closed = FALSE
    /\ streaming = FALSE
    /\ kin = <<>>
    /\ kout = <<>>
    /\ bufstate = "absent"
    /\ buffers = <<>>
    /\ buffer_queue = TRUE
    /\ leaked = {}
    /\ mode = "none"
    /\ pc = "none"
    /\ event = FALSE
    /\ registered = FALSE
    /\ it_on = FALSE
    /\ it_off = FALSE
    /\ hist = <<>>
    /\ capture = "steady"
    /\ last = Ran("init", <<>>, NoCalls, "none", -1, 0)
    /\ context_level = 0
    /\ format = 0
    /\ scheduled = FALSE
    /\ enum_loop = "none"
    /\ enum_pc = "idle"
    /\ enum_n = 0
    /\ stream_level = 0
    /\ buffers_level = 0

\* The points at which the driver can fail the construction of the slots:
\* none, or one call of one slot among those REQBUFS granted.
FailPoints(granted, queue) ==
    {<<0, "none">>} \cup
    {<<k, step>> : k \in 0..(granted - 1),
                   step \in IF queue THEN SlotSteps ELSE SlotSteps \ {"QBUF"}}

\* The counts REQBUFS can answer (-1: the call fails). The driver refuses
\* (EBUSY) while mappings of its buffers exist.
Grants == IF leaked = {} THEN -1..MaxBuffers ELSE {-1}

\* VideoStream.__init__ -> Buffers.__init__ -> _create_buffers
CreateStream ==
    /\ bufstate = "absent"
    /\ pc \in {"none", "done"}
    /\ \E mem \in Memories, size \in 1..MaxBuffers, queue \in BOOLEAN,
          granted \in Grants, length \in 1..MaxLen :
       \E fp \in FailPoints(granted, queue) :
          LET r == create_buffers(mem, size, queue, fobj_closed, granted,
                                  length, fp[1], fp[2])
          IN  /\ last' = Ran("create", <<mem, size>>, r.calls, r.raised, -1, 0)
              /\ DriverRuns(r.calls)
              /\ IF r.raised = "none"
                 THEN /\ bufstate' = "list"
                      /\ buffers' = r.slots
                      /\ buffer_queue' = queue
                      /\ hist' = <<>>
                      /\ capture' = "steady"
                      /\ UNCHANGED leaked
                 ELSE /\ leaked' = leaked \cup Unclosed(r)
                      /\ UNCHANGED <<bufstate, buffers, buffer_queue, hist, capture>>
    /\ UNCHANGED <<fobj_closed, mode, pc, event, registered,
                   it_on, it_off>>
    /\ UNCHANGED <<context_level, scheduled, enum, scopes>>

\* The interpreter finalizes the unreferenced mmap objects (munmap).
Collect ==
    /\ leaked # {}
    /\ leaked' = {}
    /\ UNCHANGED <<fobj_closed, streaming, kin, kout, bufstate,
                   buffers, buffer_queue, mode, pc, event, registered, it_on,
                   it_off, hist, capture, last>>
    /\ UNCHANGED <<context_level, format, scheduled, enum, scopes>>

\* The driver fills the buffer queued first and releases it to the
\* outgoing queue (buffers are filled and released in queueing order).
Fill ==
    /\ streaming
    /\ kin # <<>>
    /\ kin' = Tail(kin)
    /\ kout' = Append(kout, Head(kin))
    /\ UNCHANGED <<fobj_closed, streaming, bufstate, buffers,
                   buffer_queue, leaked, mode, pc, event, registered, it_on,
                   it_off, hist, capture, last>>
    /\ UNCHANGED <<context_level, format, scheduled, enum, scopes>>

\* The positions of the generator at which its caller's own code runs.
CallerRuns ==
    \/ pc \in {"none", "new", "yield", "done"}
    \/ mode = "async" /\ pc = "wait"

\* VideoCapture.start called directly
Start ==
    /\ CallerRuns
    /\ \E ok \in BOOLEAN :
          LET r == start(fobj_closed, ok)
          IN  /\ last' = Ran("start", <<>>, r.calls, r.raised, -1, 0)
              /\ DriverRuns(r.calls)
    /\ UNCHANGED <<fobj_closed, bufstate, buffers, buffer_queue,
                   leaked, mode, pc, event, registered, it_on, it_off, hist,
                   capture>>
    /\ UNCHANGED <<context_level, scheduled, enum, scopes>>

\* VideoCapture.stop called directly
Stop ==
    /\ CallerRuns
    /\ \E ok \in BOOLEAN :
          LET r == stop(fobj_closed, ok)
          IN  /\ last' = Ran("stop", <<>>, r.calls, r.raised, -1, 0)
              /\ DriverRuns(r.calls)
              /\ Stopped(r.calls)
    /\ UNCHANGED <<fobj_closed, bufstate, buffers, buffer_queue,
                   leaked, mode, pc, event, registered, it_on, it_off>>
    /\ UNCHANGED <<context_level, scheduled, enum, scopes>>

\* VideoStream.raw_read -> Buffers.raw_read called directly
RawRead ==
    /\ CallerRuns
    /\ bufstate # "absent"
    /\ \E dq \in DqAnswers, qok \in BOOLEAN :
          LET r == Buffers_raw_read(bufstate, buffers, fobj_closed, dq, qok,
                                    KernelOwned)
          IN  /\ ~dq.ok => qok
              /\ last' = Ran("raw_read", <<>>, r.calls, r.raised, r.index, r.frame)
              /\ DriverRuns(r.calls)
              /\ Dequeued(r)
    /\ UNCHANGED <<fobj_closed, bufstate, buffers, buffer_queue,
                   leaked, mode, pc, event, registered, it_on, it_off>>
    /\ UNCHANGED <<context_level, scheduled, enum, scopes>>

\* VideoStream.close -> Buffers.close
CloseStream ==
    /\ CallerRuns
    /\ bufstate # "absent"
    /\ bufstate' = "None"
    /\ buffers' = IF bufstate = "list" THEN Buffers_close(buffers) ELSE buffers
    /\ last' = Ran("close", <<>>, NoCalls, "none", -1, 0)
    /\ UNCHANGED <<fobj_closed, streaming, kin, kout, buffer_queue, leaked,
                   mode, pc, event, registered, it_on, it_off, hist, capture>>
    /\ UNCHANGED <<context_level, format, scheduled, enum, scopes>>

C14_mutant_Device_close(closed) ==
    [calls |-> <<Call("fobj.close", 0, TRUE)>>, raised |-> "none"]

\* Device.close: closes the file object unless it is closed already.
Device_close(closed) ==
    [calls |-> IF closed THEN NoCalls ELSE <<Call("fobj.close", 0, TRUE)>>,
     raised |-> "none"]

\* The effect of the calls of a close on the handle and on the driver: with
\* the descriptor released the driver stops streaming and drops its queues.
Closes(calls) ==
    IF Issued(calls, "fobj.close") /\ ~fobj_closed
    THEN /\ fobj_closed' = TRUE
         /\ streaming' = FALSE
         /\ kin' = <<>>
         /\ kout' = <<>>
         /\ capture' = "dropped"
         /\ hist' = <<>>
    ELSE UNCHANGED <<fobj_closed, streaming, kin, kout, capture, hist>>

\* Device.close called directly
CloseDevice ==
    /\ CallerRuns
    /\ LET r == Device_close(fobj_closed)
       IN  /\ Closes(r.calls)
           /\ last' = Ran("device_close", <<>>, r.calls, r.raised, -1, 0)
    /\ UNCHANGED <<bufstate, buffers, buffer_queue, leaked, mode,
                   pc, event, registered, it_on, it_off>>
    /\ UNCHANGED <<context_level, format, scheduled, enum, scopes>>

\* Device.__enter__: one more scope holds the device.
DeviceEnter ==
    /\ CallerRuns
    /\ context_level < MaxDepth
    /\ context_level' = context_level + 1
    /\ last' = Ran("device_enter", <<>>, NoCalls, "none", -1, 0)
    /\ UNCHANGED <<fobj_closed, streaming, kin, kout, bufstate, buffers,
                   buffer_queue, leaked, mode, pc, event, registered, it_on,
                   it_off, hist, capture, format, scheduled, enum, scopes>>

\* line 295: whether leaving a scope closes the device, given the level left.
ExitCloses(level) == level = 0

\* Device.__exit__: the scope is left; the outermost one closes the device.
DeviceExit ==
    /\ CallerRuns
    /\ context_level > 0
    /\ context_level' = context_level - 1
    /\ LET r == IF ExitCloses(context_level - 1)
                THEN Device_close(fobj_closed)
                ELSE [calls |-> NoCalls, raised |-> "none"]
       IN  /\ Closes(r.calls)
           /\ last' = Ran("device_exit", <<>>, r.calls, r.raised, -1, 0)
    /\ UNCHANGED <<bufstate, buffers, buffer_queue, leaked, mode,
                   pc, event, registered, it_on, it_off, format, scheduled, enum, scopes>>

\* ------------------------------------------- VideoCapture: configuration
\* set_format: S_FMT through Device._ioctl; fmt stands for the width,
\* height and pixel format asked for.
set_format(fmt, closed, ok) ==
    IF closed
    THEN [calls |-> NoCalls, raised |-> "ValueError"]
    ELSE [calls |-> <<Call("S_FMT", fmt, ok)>>,
          raised |-> IF ok THEN "none" ELSE "OSError"]

SetFormat ==
    /\ CallerRuns
    /\ \E fmt \in 1..MaxFormats, ok \in BOOLEAN :
          LET r == set_format(fmt, fobj_closed, ok)
          IN  /\ last' = Ran("set_format", <<fmt>>, r.calls, r.raised, -1, 0)
              /\ DriverRuns(r.calls)
    /\ UNCHANGED <<fobj_closed, bufstate, buffers, buffer_queue, leaked,
                   mode, pc, event, registered, it_on, it_off, hist, capture,
                   context_level, scheduled, enum, scopes>>

MAX_NR_CROP_RECTS == 8

C18_mutant_TooMany(nr_rects) == FALSE

\* line 614: the lengths of rect_array that set_selection refuses.
TooMany(nr_rects) == nr_rects > MAX_NR_CROP_RECTS

\* set_selection: nr_rects is len(rect_array); the S_SELECTION request
\* carries selection.rectangles = nr_rects.
set_selection(nr_rects, closed, ok) ==
    IF TooMany(nr_rects)
    THEN [calls |-> NoCalls, raised |-> "ValueError"]
    ELSE IF closed
    THEN [calls |-> NoCalls, raised |-> "ValueError"]
    ELSE [calls |-> <<Call("S_SELECTION", nr_rects, ok)>>,
          raised |-> IF ok THEN "none" ELSE "OSError"]

SetSelection ==
    /\ CallerRuns
    /\ \E nr_rects \in 0..MaxRects, ok \in BOOLEAN :
          LET r == set_selection(nr_rects, fobj_closed, ok)
          IN  /\ last' = Ran("set_selection", <<nr_rects>>, r.calls, r.raised, -1, 0)
              /\ DriverRuns(r.calls)
    /\ UNCHANGED <<fobj_closed, bufstate, buffers, buffer_queue, leaked,
                   mode, pc, event, registered, it_on, it_off, hist, capture,
                   context_level, scheduled, enum, scopes>>

\* ------------------------------------------------------ Stream, AsyncStream
C8_mutant_Stream_after_start(raised) == "select"

\* lines 810-813 and 827-829: where the generator goes once cap.start() has
\* returned or raised ("finally": into its cleanup; "done": out of it).
Stream_after_start(raised) == IF raised = "none" THEN "select" ELSE "done"

AsyncStream_after_start(raised) == IF raised = "none" THEN "wait" ELSE "finally"

C9_mutant_Stream_finally(closed, ok) == [calls |-> NoCalls, raised |-> "none"]

\* lines 814-815: the cleanup of Stream.
Stream_finally(closed, ok) == stop(closed, ok)

\* lines 832-834: the cleanup of AsyncStream; remove_reader runs once
\* cap.stop() has returned.
AsyncStream_finally(closed, ok) ==
    LET s == stop(closed, ok)
    IN  [calls |-> s.calls, raised |-> s.raised, removed |-> s.raised = "none"]

\* The exception that leaves a generator whose body raised `raised` and
\* whose cleanup raised `cleanup`.
Leaves(raised, cleanup) == IF cleanup # "none" THEN cleanup ELSE raised

IterOps == {"Stream.read", "AsyncStream.read"}

\* iter(stream) / AsyncStream(stream): a generator object, nothing has run.
IterNew ==
    /\ bufstate # "absent"
    /\ pc \in {"none", "done"}
    /\ mode' \in {"sync", "async"}
    /\ pc' = "new"
    /\ it_on' = FALSE
    /\ it_off' = FALSE
    /\ event' = FALSE
    /\ scheduled' = FALSE
    /\ UNCHANGED <<fobj_closed, streaming, kin, kout, bufstate, buffers,
                   buffer_queue, leaked, registered, hist, capture, last>>
    /\ UNCHANGED <<context_level, format, enum, scopes>>

\* Stream, first next(): cap.start(), then the loop blocks in select.
SyncStart ==
    /\ mode = "sync" /\ pc = "new"
    /\ \E ok \in BOOLEAN :
          LET r == start(fobj_closed, ok)
          IN  /\ last' = Ran("Stream.start", <<>>, r.calls, r.raised, -1, 0)
              /\ DriverRuns(r.calls)
              /\ pc' = Stream_after_start(r.raised)
              /\ it_on' = (r.raised = "none")
    /\ UNCHANGED <<fobj_closed, bufstate, buffers, buffer_queue, leaked,
                   mode, event, registered, it_off, hist, capture>>
    /\ UNCHANGED <<context_level, scheduled, enum, scopes>>

\* Stream: select returns, stream.read() dequeues and the frame is yielded;
\* an exception runs the cleanup and leaves the generator.
SyncRead ==
    /\ mode = "sync" /\ pc \in {"select", "yield"}
    /\ \E dq \in DqAnswers, qok \in BOOLEAN, offok \in BOOLEAN :
          LET r == Buffers_read(bufstate, buffers, fobj_closed, dq, qok,
                                KernelOwned)
              f == IF r.raised = "none"
                   THEN [calls |-> NoCalls, raised |-> "none"]
                   ELSE Stream_finally(fobj_closed, offok)
              all == [r EXCEPT !.calls = r.calls \o f.calls]
          IN  /\ r.raised = "none" => offok
              /\ ~dq.ok => qok
              /\ last' = Ran("Stream.read", <<>>, all.calls, Leaves(r.raised, f.raised),
                             r.index, r.frame)
              /\ DriverRuns(all.calls)
              /\ Dequeued(all)
              /\ pc' = IF r.raised = "none" THEN "yield" ELSE "done"
              /\ it_off' = Issued(f.calls, "STREAMOFF")
    /\ UNCHANGED <<fobj_closed, bufstate, buffers, buffer_queue, leaked,
                   mode, event, registered, it_on>>
    /\ UNCHANGED <<context_level, scheduled, enum, scopes>>

\* Stream: generator.close(). A generator that never ran just ends; one
\* suspended at the yield runs its cleanup.
SyncClose ==
    /\ mode = "sync" /\ pc \in {"new", "yield"}
    /\ \E offok \in BOOLEAN :
          LET f == IF pc = "new"
                   THEN [calls |-> NoCalls, raised |-> "none"]
                   ELSE Stream_finally(fobj_closed, offok)
          IN  /\ pc = "new" => offok
              /\ last' = Ran("Stream.close", <<>>, f.calls, f.raised, -1, 0)
              /\ DriverRuns(f.calls)
              /\ Stopped(f.calls)
              /\ it_off' = Issued(f.calls, "STREAMOFF")
    /\ pc' = "done"
    /\ UNCHANGED <<fobj_closed, bufstate, buffers, buffer_queue, leaked,
                   mode, event, registered, it_on>>
    /\ UNCHANGED <<context_level, scheduled, enum, scopes>>

\* AsyncStream, first __anext__: fileno(), add_reader, cap.start(), then
\* the generator suspends in event.wait() (the event is new, so not set).
AsyncStart ==
    /\ mode = "async" /\ pc = "new"
    /\ \E ok \in BOOLEAN, offok \in BOOLEAN :
          LET r == start(fobj_closed, ok)
              to == AsyncStream_after_start(r.raised)
              f == IF to = "finally"
                   THEN AsyncStream_finally(fobj_closed, offok)
                   ELSE [calls |-> NoCalls, raised |-> "none", removed |-> FALSE]
          IN  /\ to # "finally" => offok
              /\ IF fobj_closed
                 THEN /\ last' = Ran("AsyncStream.start", <<>>, NoCalls, "ValueError", -1, 0)
                      /\ pc' = "done"
                      /\ UNCHANGED <<streaming, kin, kout, format, registered,
                                     it_on, it_off, capture, hist>>
                 ELSE /\ last' = Ran("AsyncStream.start", <<>>, r.calls \o f.calls,
                                     Leaves(r.raised, f.raised), -1, 0)
                      /\ DriverRuns(r.calls \o f.calls)
                      /\ pc' = IF to = "finally" THEN "done" ELSE to
                      /\ registered' = ~f.removed
                      /\ it_on' = (r.raised = "none")
                      /\ it_off' = Issued(f.calls, "STREAMOFF")
                      /\ Stopped(f.calls)
    /\ event' = FALSE
    /\ UNCHANGED <<fobj_closed, bufstate, buffers, buffer_queue, leaked,
                   mode>>
    /\ UNCHANGED <<context_level, scheduled, enum, scopes>>

\* The event loop, running while the task is suspended, polls the
\* descriptor, finds it readable and puts the reader's handle (event.set)
\* into its ready queue; the handle runs later in that pass of the loop,
\* after the handles queued before it.
ReaderReady ==
    /\ registered /\ mode = "async" /\ pc \in {"wait", "yield"}
    /\ ~fobj_closed
    /\ kout # <<>>
    /\ ~scheduled
    /\ scheduled' = TRUE
    /\ UNCHANGED <<fobj_closed, streaming, kin, kout, bufstate, buffers,
                   buffer_queue, leaked, mode, pc, event, registered, it_on,
                   it_off, hist, capture, last>>
    /\ UNCHANGED <<context_level, format, enum, scopes>>

\* The event loop runs the queued handle: event.set().
ReaderCallback ==
    /\ mode = "async" /\ pc \in {"wait", "yield"}
    /\ scheduled
    /\ scheduled' = FALSE
    /\ event' = TRUE
    /\ UNCHANGED <<fobj_closed, streaming, kin, kout, bufstate, buffers,
                   buffer_queue, leaked, mode, pc, registered, it_on, it_off,
                   hist, capture, last>>
    /\ UNCHANGED <<context_level, format, enum, scopes>>

\* AsyncStream: event.wait() returns (at once when the consumer asks for the
\* next frame with the event set), event.clear(), raw_read(), yield.
AsyncRead ==
    /\ mode = "async" /\ pc \in {"wait", "yield"}
    /\ event
    /\ \E dq \in DqAnswers, qok \in BOOLEAN, offok \in BOOLEAN :
          LET r == Buffers_raw_read(bufstate, buffers, fobj_closed, dq, qok,
                                    KernelOwned)
              f == IF r.raised = "none"
                   THEN [calls |-> NoCalls, raised |-> "none", removed |-> FALSE]
                   ELSE AsyncStream_finally(fobj_closed, offok)
              all == [r EXCEPT !.calls = r.calls \o f.calls]
          IN  /\ r.raised = "none" => offok
              /\ ~dq.ok => qok
              /\ last' = Ran("AsyncStream.read", <<>>, all.calls,
                             Leaves(r.raised, f.raised), r.index, r.frame)
              /\ DriverRuns(all.calls)
              /\ Dequeued(all)
              /\ pc' = IF r.raised = "none" THEN "yield" ELSE "done"
              /\ registered' = (registered /\ ~f.removed)
              /\ scheduled' = (scheduled /\ ~f.removed)
              /\ it_off' = Issued(f.calls, "STREAMOFF")
    /\ event' = FALSE
    /\ UNCHANGED <<fobj_closed, bufstate, buffers, buffer_queue, leaked,
                   mode, it_on>>
    /\ UNCHANGED <<context_level, enum, scopes>>

\* AsyncStream: the consumer asks for the next frame and the event is not
\* set: the generator suspends in event.wait().
AsyncWait ==
    /\ mode = "async" /\ pc = "yield"
    /\ ~event
    /\ pc' = "wait"
    /\ UNCHANGED <<fobj_closed, streaming, kin, kout, bufstate, buffers,
                   buffer_queue, leaked, mode, event, registered, it_on,
                   it_off, hist, capture, last>>
    /\ UNCHANGED <<context_level, format, scheduled, enum, scopes>>

\* AsyncStream ends from outside: the consuming task is cancelled while the
\* generator waits (CancelledError at event.wait()), or the generator is
\* closed at the yield (aclose(), GeneratorExit); a generator that never ran
\* just ends.
AsyncEnd ==
    /\ mode = "async" /\ pc \in {"new", "wait", "yield"}
    /\ \E offok \in BOOLEAN :
          LET f == IF pc = "new"
                   THEN [calls |-> NoCalls, raised |-> "none", removed |-> FALSE]
                   ELSE AsyncStream_finally(fobj_closed, offok)
              thrown == IF pc = "wait" THEN "CancelledError" ELSE "none"
          IN  /\ pc = "new" => offok
              /\ last' = Ran(IF pc = "wait" THEN "AsyncStream.cancel"
                             ELSE "AsyncStream.close",
                             <<>>, f.calls, Leaves(thrown, f.raised), -1, 0)
              /\ DriverRuns(f.calls)
              /\ Stopped(f.calls)
              /\ registered' = (registered /\ ~f.removed)
              /\ scheduled' = (scheduled /\ ~f.removed)
              /\ it_off' = Issued(f.calls, "STREAMOFF")
    /\ pc' = "done"
    /\ UNCHANGED <<fobj_closed, bufstate, buffers, buffer_queue, leaked,
                   mode, event, it_on>>
    /\ UNCHANGED <<context_level, enum, scopes>>

\* ---------------------------------- scopes of the stream and of its pool
\* Buffers.close as run by the exit of a scope that is the outermost one.
PoolCloses(closing) ==
    IF closing
    THEN /\ bufstate' = "None"
         /\ buffers' = IF bufstate = "list" THEN Buffers_close(buffers) ELSE buffers
    ELSE UNCHANGED <<bufstate, buffers>>

\* VideoStream.__enter__
StreamEnter ==
    /\ CallerRuns
    /\ bufstate # "absent"
    /\ stream_level < MaxDepth
    /\ stream_level' = stream_level + 1
    /\ last' = Ran("stream_enter", <<>>, NoCalls, "none", -1, 0)
    /\ UNCHANGED <<fobj_closed, streaming, kin, kout, bufstate, buffers,
                   buffer_queue, leaked, mode, pc, event, registered, it_on,
                   it_off, hist, capture, context_level, format, scheduled,
                   enum, buffers_level>>

\* VideoStream.__exit__: the outermost scope runs VideoStream.close, which
\* is Buffers.close.
StreamExit ==
    /\ CallerRuns
    /\ bufstate # "absent"
    /\ stream_level > 0
    /\ stream_level' = stream_level - 1
    /\ PoolCloses(ExitCloses(stream_level - 1))
    /\ last' = Ran("stream_exit", <<>>, NoCalls, "none", -1, 0)
    /\ UNCHANGED <<fobj_closed, streaming, kin, kout, buffer_queue, leaked,
                   mode, pc, event, registered, it_on, it_off, hist, capture,
                   context_level, format, scheduled, enum, buffers_level>>

\* Buffers.__enter__
BuffersEnter ==
    /\ CallerRuns
    /\ bufstate # "absent"
    /\ buffers_level < MaxDepth
    /\ buffers_level' = buffers_level + 1
    /\ last' = Ran("buffers_enter", <<>>, NoCalls, "none", -1, 0)
    /\ UNCHANGED <<fobj_closed, streaming, kin, kout, bufstate, buffers,
                   buffer_queue, leaked, mode, pc, event, registered, it_on,
                   it_off, hist, capture, context_level, format, scheduled,
                   enum, stream_level>>

\* Buffers.__exit__: the outermost scope runs Buffers.close.
BuffersExit ==
    /\ CallerRuns
    /\ bufstate # "absent"
    /\ buffers_level > 0
    /\ buffers_level' = buffers_level - 1
    /\ PoolCloses(ExitCloses(buffers_level - 1))
    /\ last' = Ran("buffers_exit", <<>>, NoCalls, "none", -1, 0)
    /\ UNCHANGED <<fobj_closed, streaming, kin, kout, buffer_queue, leaked,
                   mode, pc, event, registered, it_on, it_off, hist, capture,
                   context_level, format, scheduled, enum, stream_level>>

\* ------------------------------------ enumerations run when a device opens
\* lines 106 and 198: `for index in range(128)`
ENUM_RANGE == 128

\* The loops Device.__init__ runs: the image formats (read_info), the frame
\* intervals of a frame size (frame_sizes.get_frame_intervals, from
\* read_info) and the controls (Device._get_device_controls).
EnumLoops == {"read_info", "get_frame_intervals", "_get_device_controls"}

EnumRequest(loop) ==
    CASE loop = "read_info" -> "ENUM_FMT"
      [] loop = "get_frame_intervals" -> "ENUM_FRAMEINTERVALS"
      [] OTHER -> "QUERY_EXT_CTRL"

\* The driver's answers to one enumeration ioctl: an entry; an entry whose
\* pixel format or interval type the module's enums do not know; EINVAL
\* (no such entry); any other error.
EnumAnswers == {"entry", "unknown", "EINVAL", "EIO"}

\* Whether the loop statement itself ends the loop after n passes: the two
\* `for index in range(128)` do, `while True` (line 327) never does.
Exhausted(loop, n) == loop # "_get_device_controls" /\ n >= ENUM_RANGE

\* The index the pass n asks for: fmt.index = index before the call (line
\* 199); val.index = index after the call (line 114), so the pass asks for
\* the index of the pass before; the controls ask for the next control.
IndexAsked(loop, n) ==
    CASE loop = "read_info" -> n
      [] loop = "get_frame_intervals" -> IF n = 0 THEN 0 ELSE n - 1
      [] OTHER -> 0

\* Where a pass leaves the loop, given the driver's answer: EINVAL breaks;
\* another error is re-raised (lines 110-113, 202-205) or fails the assert
\* of line 331; an unknown interval type breaks (lines 116-119), an unknown
\* pixel format continues (lines 206-209).
EnumAfter(loop, answer) ==
    CASE answer = "EINVAL" -> [pc |-> "returned", raised |-> "none"]
      [] answer = "EIO" ->
            [pc |-> "raised",
             raised |-> IF loop = "_get_device_controls"
                        THEN "AssertionError" ELSE "OSError"]
      [] answer = "unknown" /\ loop = "get_frame_intervals" ->
            [pc |-> "returned", raised |-> "none"]
      [] OTHER -> [pc |-> "running", raised |-> "none"]

\* An enumeration loop is entered.
EnumBegin ==
    /\ ~fobj_closed
    /\ enum_pc # "running"
    /\ enum_loop' \in EnumLoops
    /\ enum_pc' = "running"
    /\ enum_n' = 0
    /\ last' = Ran(enum_loop', <<>>, NoCalls, "none", -1, 0)
    /\ UNCHANGED <<fobj_closed, streaming, kin, kout, bufstate, buffers,
                   buffer_queue, leaked, mode, pc, event, registered, it_on,
                   it_off, hist, capture, context_level, format, scheduled,
                   scopes>>

\* One pass of the loop: the loop statement ends it, or it issues its ioctl
\* and goes on as the answer tells. Past MaxIoctls the count stays.
EnumStep ==
    /\ enum_pc = "running"
    /\ IF Exhausted(enum_loop, enum_n)
       THEN /\ enum_pc' = "returned"
            /\ enum_n' = enum_n
            /\ last' = Ran(enum_loop, <<>>, NoCalls, "none", -1, 0)
       ELSE \E answer \in EnumAnswers :
               LET to == EnumAfter(enum_loop, answer)
                   c == Call(EnumRequest(enum_loop),
                             IndexAsked(enum_loop, enum_n),
                             answer \in {"entry", "unknown"}) @@
                        [errno |-> IF answer \in {"entry", "unknown"}
                                   THEN "none" ELSE answer]
               IN  /\ enum_pc' = to.pc
                   /\ enum_n' = IF enum_n < MaxIoctls THEN enum_n + 1 ELSE enum_n
                   /\ last' = Ran(enum_loop, <<>>, <<c>>, to.raised, -1, 0)
    /\ UNCHANGED <<fobj_closed, streaming, kin, kout, bufstate, buffers,
                   buffer_queue, leaked, mode, pc, event, registered, it_on,
                   it_off, hist, capture, context_level, format, scheduled,
                   scopes, enum_loop>>

Next ==
    \/ CreateStream
    \/ Collect
    \/ Fill
    \/ Start
    \/ Stop
    \/ RawRead
    \/ CloseStream
    \/ CloseDevice
    \/ IterNew
    \/ SyncStart
    \/ SyncRead
    \/ SyncClose
    \/ AsyncStart
    \/ ReaderReady
    \/ ReaderCallback
    \/ AsyncRead
    \/ AsyncWait
    \/ AsyncEnd

Spec == Init /\ [][Next]_vars

\* The capture machinery together with the scopes of the device handle.
NextScope == Next \/ DeviceEnter \/ DeviceExit

SpecScope == Init /\ [][NextScope]_vars

\* The capture machinery together with the format of the capture.
NextFormat == Next \/ SetFormat

SpecFormat == Init /\ [][NextFormat]_vars

\* The capture machinery together with the selection rectangles.
NextSelection == Next \/ SetSelection

SpecSelection == Init /\ [][NextSelection]_vars

\* One consumer iterating an AsyncStream and nothing else: the consumer's
\* steps, the event loop's and the driver's.
NextAsync ==
    \/ CreateStream
    \/ Collect
    \/ Fill
    \/ IterNew
    \/ AsyncStart
    \/ ReaderReady
    \/ ReaderCallback
    \/ AsyncRead
    \/ AsyncWait
    \/ AsyncEnd

SpecAsync == Init /\ [][NextAsync]_vars

\* The enumeration loops of the opening of a device, against the driver.
NextOpen == EnumBegin \/ EnumStep

SpecOpen == Init /\ [][NextOpen]_vars

\* The device, the stream and its pool used through their scopes only: no
\* close is called directly.
NextNested ==
    \/ CreateStream
    \/ Collect
    \/ Fill
    \/ Start
    \/ Stop
    \/ RawRead
    \/ DeviceEnter
    \/ DeviceExit
    \/ StreamEnter
    \/ StreamExit
    \/ BuffersEnter
    \/ BuffersExit

SpecNested == Init /\ [][NextNested]_vars

\* ------------------------------------------------------------------ claims
Indices(bufs) == {bufs[i].index : i \in 1..Len(bufs)}

\* The run that created the pool: REQBUFS granted this many slots.
GrantedCount(run) == run.calls[1].arg

Created(run) == run.op = "create" /\ run.raised = "none"

\* C1: a pool whose REQBUFS was granted M slots holds exactly M slots, the
\* slot at position i has index i (so the indices are distinct and are
\* 0..M-1), and as long as the pool is open no handler (dequeue, start, stop,
\* iteration step) changes its slots.
C1_SlotsFixed ==
    [][/\ (bufstate = "absent" /\ bufstate' = "list") =>
            /\ Created(last')
            /\ GrantedCount(last') >= 1
            /\ Len(buffers') = GrantedCount(last')
            /\ \A i \in 1..Len(buffers') : buffers'[i].index = i - 1
            /\ Indices(buffers') = 0..(GrantedCount(last') - 1)
       /\ (bufstate = "list" /\ bufstate' = "list") => buffers' = buffers]_vars

\* a pool of one slot, streaming, and a dequeue has run on it
C1_Witness ==
    /\ bufstate = "list"
    /\ Len(buffers) = 1
    /\ last.op = "raw_read" /\ last.raised = "none"
    /\ streaming

\* C2: creating a pool with a memory kind other than MMAP raises TypeError,
\* makes no kernel call at all and leaves no pool behind.
C2_UnsupportedMemory ==
    (last.op = "create" /\ last.arg[1] # "MMAP") =>
        /\ last.raised = "TypeError"
        /\ last.calls = NoCalls
        /\ bufstate = "absent"

C2_Witness ==
    /\ last.op = "create" /\ last.arg[1] = "USERPTR"
    /\ ~fobj_closed

\* C3: when REQBUFS succeeds and grants zero buffers, creation raises the
\* allocation error and REQBUFS is the only kernel call made: no QUERYBUF,
\* no mmap, no QBUF, no pool.
C3_ZeroCount ==
    (last.op = "create" /\ last.calls # NoCalls /\ last.calls[1].ok
        /\ GrantedCount(last) = 0) =>
        /\ last.raised = "IOError"
        /\ Reqs(last.calls) = <<"REQBUFS">>
        /\ bufstate = "absent"

C3_Witness ==
    /\ last.op = "create" /\ last.arg[1] = "MMAP"
    /\ Reqs(last.calls) = <<"REQBUFS">> /\ last.calls[1].ok
    /\ GrantedCount(last) = 0

\* C4: when QUERYBUF or mmap fails for a slot during creation, no mapping
\* of the slots created before it remains once creation has raised.
C4_AllOrNothing ==
    (last.op = "create"
        /\ (Failed(last.calls, "QUERYBUF") \/ Failed(last.calls, "mmap"))) =>
        leaked = {}

\* C5: a creation in auto-queue mode that succeeds has issued exactly one
\* QBUF per slot index, each accepted, and every slot is with the driver
\* when creation returns and still is when streaming is started next.
C5_QueuedOnce ==
    /\ [](Created(last) /\ buffer_queue =>
            /\ \A i \in Indices(buffers) : Count(last.calls, "QBUF", i) = 1
            /\ \A c \in Range(last.calls) : c.req = "QBUF" => c.ok /\ c.arg \in Indices(buffers)
            /\ KernelOwned = Indices(buffers))
    /\ [][(Created(last) /\ buffer_queue /\ ~streaming /\ streaming') =>
            KernelOwned' = Indices(buffers')]_vars

C5_Witness ==
    /\ bufstate = "list" /\ buffer_queue /\ Len(buffers) = 2
    /\ last.op \in {"start", "Stream.start", "AsyncStream.start"}
    /\ streaming
    /\ KernelOwned = {0, 1}

ReadOps == {"raw_read", "Stream.read", "AsyncStream.read"}

\* A dequeue that returned a frame on an auto-queue pool.
Delivered(run) == run.op \in ReadOps /\ run.raised = "none"

C7_RoundRobin ==
    (bufstate = "list" /\ buffer_queue /\ capture = "steady") =>
        /\ Cardinality(Range(hist)) = Len(hist)
        /\ Range(hist) \subseteq Indices(buffers)
        /\ Len(hist) = Len(buffers) => Range(hist) = Indices(buffers)

\* at least three dequeues on a two-slot pool: 0, 1, 0
C7_Witness ==
    /\ bufstate = "list" /\ buffer_queue /\ capture = "steady"
    /\ Len(buffers) = 2
    /\ hist = <<1, 0>>

\* An iteration step issues DQBUF in this step.
IterDequeues ==
    /\ last' # last
    /\ last'.op \in IterOps
    /\ Issued(last'.calls, "DQBUF")

\* C8: whenever an iteration (Stream or AsyncStream) issues DQBUF, its
\* cap.start() has returned before and its cleanup has not issued STREAMOFF
\* yet: the DQBUF is the first kernel call of the step, ahead of the
\* STREAMOFF of a cleanup in the same step.
C8_DequeueWhileArmed ==
    [][IterDequeues =>
        /\ it_on /\ ~it_off
        /\ pc \in {"select", "wait", "yield"}
        /\ last'.calls[1].req = "DQBUF"
        /\ \A i \in 2..Len(last'.calls) : last'.calls[i].req # "STREAMON"]_vars

\* a blocking iteration whose dequeue failed and whose cleanup then stopped
C8_Witness ==
    /\ last.op = "Stream.read"
    /\ Reqs(last.calls) = <<"DQBUF", "STREAMOFF">>
    /\ it_on /\ it_off /\ pc = "done"

\* C9: an iteration that has armed the device (its cap.start() returned)
\* issues STREAMOFF in the step in which it ends, whatever ends it (a
\* dequeue error, close of the generator, cancellation), unless the device
\* handle is closed at that moment, in which case it issues none.
C9_StopOnExit ==
    [][(pc # "done" /\ pc' = "done" /\ it_on) =>
        /\ Issued(last'.calls, "STREAMOFF") = ~fobj_closed
        /\ it_off' = ~fobj_closed]_vars

\* the consuming task of an armed event-driven iteration was cancelled
C9_Witness ==
    /\ mode = "async" /\ pc = "done" /\ it_on /\ it_off
    /\ last.op = "AsyncStream.cancel"
    /\ Reqs(last.calls) = <<"STREAMOFF">>

\* C10: once an event-driven iteration has ended, on any path, the
\* readiness registration of the descriptor is removed.
C10_ReaderRemoved ==
    (mode = "async" /\ pc = "done") => ~registered

\* The runs that end with VideoCapture.stop: the direct call and the
\* cleanup of an iteration.
CloseOps == {"Stream.close", "AsyncStream.close"}

StopOps == {"stop", "Stream.read", "AsyncStream.read", "AsyncStream.cancel"} \cup CloseOps

\* C11: a stop that runs on a closed device handle issues no STREAMOFF and
\* does not raise: the direct call returns without any kernel call, and the
\* cleanup of an iteration whose device was closed meanwhile adds no call
\* and no exception of its own (closing the generator returns, a cancelled
\* task leaves with its CancelledError).
C11_StopOnClosed ==
    (fobj_closed /\ last.op \in StopOps) =>
        /\ ~Issued(last.calls, "STREAMOFF")
        /\ last.op = "stop" => (last.raised = "none" /\ last.calls = NoCalls)
        /\ last.op \in CloseOps => (last.raised = "none" /\ last.calls = NoCalls)
        /\ last.op = "AsyncStream.cancel" =>
              (last.raised = "CancelledError" /\ last.calls = NoCalls)
        /\ last.op \in IterOps => last.raised \in {"ValueError", "TypeError"}

\* the device was closed while an armed event-driven iteration was waiting,
\* and the task was then cancelled
C11_Witness ==
    /\ fobj_closed
    /\ last.op = "AsyncStream.cancel"
    /\ mode = "async" /\ pc = "done" /\ it_on /\ ~it_off

\* C12: the slots of a stream are never unmapped while the stream is armed:
\* whenever VideoStream.close has run, the device was not streaming.
C12_CloseOnlyIdle ==
    (last.op = "close" /\ bufstate = "None") => ~streaming

Unmapped(bufs) == \A i \in 1..Len(bufs) : ~bufs[i].mmap

\* C13: closing the pool unmaps every slot and does not raise; closing it
\* again changes nothing of the pool and does not raise; and a read on the
\* closed pool fails without a DQBUF (raw_read with the TypeError of
\* indexing None).
C13_CloseThenRead ==
    /\ [][last'.op = "close" =>
            /\ bufstate' = "None"
            /\ Unmapped(buffers')
            /\ last'.raised = "none" /\ last'.calls = NoCalls
            /\ bufstate = "None" => buffers' = buffers]_vars
    /\ []((bufstate = "None" /\ last.op \in ReadOps) =>
            /\ last.raised # "none"
            /\ ~Issued(last.calls, "DQBUF")
            /\ last.op = "raw_read" =>
                  (last.raised = "TypeError" /\ last.calls = NoCalls))

\* a read on a closed pool of two slots, device open and streaming
C13_Witness ==
    /\ bufstate = "None" /\ Len(buffers) = 2 /\ Unmapped(buffers)
    /\ last.op = "raw_read" /\ last.raised = "TypeError"
    /\ ~fobj_closed /\ streaming

\* C15: whenever the device handle is closed, the pool built from it is
\* closed (no slot is still mapped) and the device is not streaming.
C15_NothingOutlivesDevice ==
    fobj_closed =>
        /\ bufstate = "list" => Unmapped(buffers)
        /\ ~streaming

\* The errno DQBUF answered in a dequeue that got as far as DQBUF.
DqErrno(run) == run.calls[1].errno

\* C16: a direct pool dequeue that got as far as DQBUF raises exactly when
\* DQBUF reported an error other than would-block (EAGAIN), and a dequeue
\* that raises has issued no QBUF.
C16_DequeueErrors ==
    (last.op = "raw_read" /\ last.calls # NoCalls) =>
        /\ (last.raised # "none") = (DqErrno(last) \notin {"none", "EAGAIN"})
        /\ last.raised # "none" => ~Issued(last.calls, "QBUF")

\* The indices the driver holds once it has served the first n calls of the
\* run that this step makes.
OwnedAfter(n) ==
    LET k == Driver(SubSeq(last'.calls, 1, n), DriverNow)
    IN  Range(k.kin) \cup Range(k.kout)

\* The steps that issue QBUF or read a slot.
PoolStep == CreateStream \/ RawRead \/ SyncRead \/ AsyncRead

UserOwned == Indices(buffers) \ KernelOwned

C20_NoTornRead ==
    /\ []((Delivered(last) /\ bufstate = "list") =>
            /\ last.frame # Torn
            /\ last.frame = Min(last.calls[1].bytesused,
                                buffers[last.index + 1].length))
    /\ [][Fill => last'.frame = last.frame]_vars

\* an auto-queue dequeue returned a full frame from slot 1, which the driver
\* has already filled again
C20_Witness ==
    /\ Delivered(last) /\ bufstate = "list" /\ buffer_queue
    /\ last.index = 1 /\ last.frame = 1
    /\ Reqs(last.calls) = <<"DQBUF", "QBUF">>
    /\ 1 \in Range(kout)

\* C14: the close of an open device handle (called directly, or by leaving
\* the outermost scope) releases the descriptor with one close of the file
\* object; a close of a closed handle, direct or by scope exit, does not
\* raise, makes no call on the descriptor and changes nothing; and a closed
\* handle never becomes open again.
C14_CloseIdempotent ==
    /\ [][fobj_closed => fobj_closed']_vars
    /\ [][(CloseDevice \/ DeviceExit) =>
            /\ last'.raised = "none"
            /\ fobj_closed =>
                  /\ last'.calls = NoCalls
                  /\ UNCHANGED <<fobj_closed, streaming, kin, kout, bufstate,
                                 buffers, leaked, registered, capture, format>>
            /\ (~fobj_closed /\ (last'.op = "device_close" \/ context_level' = 0)) =>
                  /\ Reqs(last'.calls) = <<"fobj.close">>
                  /\ fobj_closed'
            /\ (~fobj_closed /\ last'.op = "device_exit" /\ context_level' > 0) =>
                  /\ last'.calls = NoCalls
                  /\ ~fobj_closed']_vars

\* the device was closed inside its scope, and the scope was then left
C14_Witness ==
    /\ fobj_closed
    /\ last.op = "device_exit" /\ last.calls = NoCalls
    /\ context_level = 0

\* C17: only set_format issues S_FMT and only a set_format step changes the
\* format the device holds: start, stop, dequeues, iteration steps, pool
\* creation and close leave it as it is, so it is the same after
\* set_format(F), start, dequeues, stop, start as before the stop.
C17_FormatSurvives ==
    /\ [](last.op # "set_format" => ~Issued(last.calls, "S_FMT"))
    /\ [][format' # format =>
            /\ SetFormat
            /\ Succeeded(last'.calls, "S_FMT")
            /\ format' = last'.arg[1]]_vars

\* format 2 was set, the capture was stopped and has been started again
C17_Witness ==
    /\ format = 2
    /\ bufstate = "list" /\ capture = "dropped"
    /\ last.op = "start" /\ last.raised = "none"
    /\ streaming

\* C18: set_selection with more than MAX_NR_CROP_RECTS rectangles raises
\* ValueError without any kernel call, on an open or a closed device; with
\* at most that many, on an open device, it issues exactly one S_SELECTION,
\* carrying as many rectangles as the sequence has.
C18_SelectionLimit ==
    last.op = "set_selection" =>
        /\ last.arg[1] > MAX_NR_CROP_RECTS =>
              (last.raised = "ValueError" /\ last.calls = NoCalls)
        /\ (last.arg[1] <= MAX_NR_CROP_RECTS /\ ~fobj_closed) =>
              /\ Reqs(last.calls) = <<"S_SELECTION">>
              /\ last.calls[1].arg = last.arg[1]

\* nine rectangles were refused
C18_Witness ==
    /\ last.op = "set_selection"
    /\ last.arg[1] = MAX_NR_CROP_RECTS + 1
    /\ last.raised = "ValueError"
    /\ ~fobj_closed

\* C24: an iteration (Stream or AsyncStream) whose cleanup has issued
\* STREAMOFF is one whose cap.start() had returned: no STREAMOFF without
\* the iteration's own successful STREAMON.
C24_StopOnlyAfterStart ==
    it_off => it_on

\* C21: in event-driven mode a step of the iteration dequeues only once the
\* descriptor was reported readable, so under every interleaving of the
\* reader's callbacks and the consumer's steps no DQBUF is issued while the
\* driver has no filled buffer to hand over.
C21_DequeueOnlyWhenFilled ==
    [][(AsyncRead /\ Issued(last'.calls, "DQBUF")) => kout # <<>>]_vars

\* The length the driver reported (QUERYBUF) for the slot `index` during the
\* construction `run`.
Reported(run, index) ==
    LET k == CHOOSE k \in 1..Len(run.calls) :
                run.calls[k].req = "QUERYBUF" /\ run.calls[k].arg = index
    IN  run.calls[k].length

Lengths(bufs) == [i \in 1..Len(bufs) |-> bufs[i].length]

\* C22: every frame a dequeue delivers is no longer than the mapping of the
\* slot it came from, whatever bytesused the driver reports (also one larger
\* than the mapping); the length a slot records is the length QUERYBUF
\* reported when the slot was created, and it never changes afterwards.
C22_FrameWithinSlot ==
    /\ []((Delivered(last) /\ bufstate = "list") =>
            last.frame <= buffers[last.index + 1].length)
    /\ [][(bufstate = "absent" /\ bufstate' = "list") =>
            \A i \in 1..Len(buffers') :
                buffers'[i].length = Reported(last', i - 1)]_vars
    /\ [][bufstate # "absent" => Lengths(buffers') = Lengths(buffers)]_vars

\* the driver reported more bytes used than the slot maps, and the frame
\* delivered has the length of the mapping
C22_Witness ==
    /\ Delivered(last) /\ bufstate = "list"
    /\ last.calls[1].bytesused > buffers[last.index + 1].length
    /\ last.frame = buffers[last.index + 1].length

\* C23: every enumeration loop of the opening of a device (image formats,
\* frame intervals, controls) ends after at most a fixed number of ioctls
\* (128) even when the driver never answers EINVAL, and an EINVAL answer ends
\* the loop normally, no exception reaching the caller.
C23_EnumerationsBounded ==
    /\ enum_n <= ENUM_RANGE
    /\ (/\ last.op \in EnumLoops
        /\ last.calls # NoCalls
        /\ last.calls[1].errno = "EINVAL") =>
            (enum_pc = "returned" /\ last.raised = "none")

\* C25: scoped use of a Device, of a Buffers pool and of a VideoStream is
\* reference-counted: leaving a scope closes the resource exactly when it
\* was the outermost one (the count is back at zero), and while a scope of
\* the resource stays active (the count stays above zero) the resource is
\* not closed.
C25_ScopesCounted ==
    [][/\ context_level' < context_level =>
            fobj_closed' = (fobj_closed \/ context_level' = 0)
       /\ stream_level' < stream_level =>
            (bufstate' = "None") = (bufstate = "None" \/ stream_level' = 0)
       /\ buffers_level' < buffers_level =>
            (bufstate' = "None") = (bufstate = "None" \/ buffers_level' = 0)
       /\ (context_level > 0 /\ context_level' > 0) => fobj_closed' = fobj_closed
       /\ (stream_level > 0 /\ stream_level' > 0) => bufstate' = bufstate
       /\ (buffers_level > 0 /\ buffers_level' > 0) => bufstate' = bufstate]_vars
====
